---- MODULE Spec2Model ----
(***************************************************************************)
(* Job lifecycle of the meeting recorder (src/app.py): the job record kept *)
(* in the GCS job store by SimpleJobManager, the background task           *)
(* process_audio_async that drives one job through the long-running        *)
(* recognition operation, and the caller that submits a job and reads its  *)
(* status.                                                                 *)
(*                                                                         *)
(* Time is wall-clock seconds since the submission; it passes in           *)
(* time.sleep(30) only (30 s plus a bounded overshoot) and never runs      *)
(* backwards.  Texts are sequences of pieces, a piece being a slice        *)
(* lo..hi of a named source text, so that slicing, concatenation, length   *)
(* and strip() are computed as Python computes them.  Python's None is the *)
(* empty tuple and a present value x is <<x>>.                             *)
(***************************************************************************)
EXTENDS Integers, Sequences, FiniteSets, TLC

VARIABLES
    store,            \* GCS blobs job_status/<id>.json: id -> None or <<record>>
    pc,               \* position of the background task in process_audio_async
    job_id,           \* the task's job_id argument (None before Submit)
    speed_mode,       \* settings['speed_mode'] of the submitted job
    now,              \* wall clock, seconds since submission
    start_time,       \* start_time of line 190
    drift,            \* seconds by which the sleeps have overshot so far
    polls,            \* number of operation.done() calls made
    fetches,          \* number of operation.result() calls made
    summaries,        \* number of openai.ChatCompletion.create calls made
    last_poll,        \* what the latest operation.done() call did
    last_summary,     \* how the summarization try block ended
    transcript,       \* local variable transcript
    processing_time,  \* local variable processing_time (seconds)
    transcript_sample,\* the text put in the prompt (None before)
    meeting_minutes,  \* local variable meeting_minutes (None before)
    checks,           \* number of Status calls the caller has made
    job_status,       \* what the caller's latest get_job_status returned
    raised,           \* which external call of the task raised ("none" if none)
    created,          \* the ids create_job has returned, in order
    latest,           \* per id, the record as of the latest create/update call
    chunks,           \* chunked path: index -> None or <<outcome of the chunk>>
    completion,       \* chunked path: the indices in their order of completion
    call              \* the latest direct call of a SimpleJobManager method

vars == <<store, pc, job_id, speed_mode, now, start_time, drift, polls, fetches,
          summaries, last_poll, last_summary, transcript, processing_time,
          transcript_sample, meeting_minutes, checks, job_status, raised,
          created, latest, chunks, completion, call>>

----------------------------------------------------------------------------
(* Bounds of the model *)

\* total overshoot of the sleeps of one run, in seconds
MaxDrift == 1
\* number of Status calls the caller makes
MaxChecks == 1
\* number of create_job and update_job_status calls made directly
MaxCalls == 3
\* number of chunks the splitter cuts a source into
NumChunks == 3

\* the ids uuid4 may hand out
JobIds == {"a1b2c3d4", "e5f6a7b8"}

----------------------------------------------------------------------------
(* Program constants *)

SpeedModes == {"balanced", "fast", "quality"}
FastWait == 1500
QualityWait == 2400
BalancedWait == 1800
PollInterval == 30
max_length == 8000

None == <<>>
Some(x) == <<x>>

max_wait_time(mode) ==
    IF mode = "fast" THEN FastWait
    ELSE IF mode = "quality" THEN QualityWait
    ELSE BalancedWait

----------------------------------------------------------------------------
(* Texts *)

Piece(src, lo, hi) == [src |-> src, lo |-> lo, hi |-> hi]
Newline == <<Piece("newline", 1, 1)>>
\* what one alternative's transcript can be
Silence == <<>>
Speech == <<Piece("speech", 1, 40)>>
LongSpeech == <<Piece("speech", 1, max_length + 1)>>

RECURSIVE TextLen(_)
TextLen(t) ==
    IF t = <<>> THEN 0 ELSE (t[1].hi - t[1].lo + 1) + TextLen(Tail(t))

\* not text.strip(): nothing but whitespace
StripEmpty(t) == \A i \in 1..Len(t) : t[i].src = "newline"

\* text[:n]
RECURSIVE Prefix(_, _)
Prefix(t, n) ==
    IF t = <<>> \/ n <= 0 THEN <<>>
    ELSE LET l == t[1].hi - t[1].lo + 1 IN
         IF l <= n THEN <<t[1]>> \o Prefix(Tail(t), n - l)
         ELSE <<Piece(t[1].src, t[1].lo, t[1].lo + n - 1)>>

ExcerptNote == <<Piece("excerpt_note", 1, 1)>>
ErrorHeader == <<Piece("minutes_error_header", 1, 1)>>
Minutes == <<Piece("minutes", 1, 1)>>

\* response.results: each result is the sequence of its alternatives
Responses ==
    { <<>>,
      << <<Silence>> >>,
      << <<Speech>> >>,
      << <<Speech>>, <<Silence>> >>,
      << <<LongSpeech>> >>,
      << <<>> >> }

\* lines 215-217; None when result.alternatives[0] raises IndexError
RECURSIVE JoinResults(_)
JoinResults(results) ==
    IF results = <<>> THEN Some(<<>>)
    ELSE IF results[1] = <<>> THEN None
    ELSE LET rest == JoinResults(Tail(results)) IN
         IF rest = None THEN None
         ELSE Some(results[1][1] \o Newline \o rest[1])

\* lines 230-234
Sample(t) ==
    IF TextLen(t) > max_length THEN Prefix(t, max_length) \o ExcerptNote ELSE t

\* a variant of the fallback that carries the excerpt given to the summarizer
DegradedMinutes_Sample(t) == ErrorHeader \o Sample(t)

\* line 287
DegradedMinutes(t) == ErrorHeader \o t

----------------------------------------------------------------------------
(* Progress values: exact fractions num/den, den > 0 *)

Frac(n, d) == [num |-> n, den |-> d]
Whole(n) == Frac(n, 1)
FracLeq(a, b) == a.num * b.den <= b.num * a.den
FracEq(a, b) == a.num * b.den = b.num * a.den

\* a variant of the estimate that counts the remaining time instead of the elapsed
ProgressEstimate_Remaining(elapsed_time, max_wait) ==
    Frac(25 * max_wait + (max_wait - elapsed_time) * 60, max_wait)

\* line 201: min(25 + (elapsed_time / max_wait_time) * 60, 85)
ProgressEstimate(elapsed_time, max_wait) ==
    LET est == Frac(25 * max_wait + elapsed_time * 60, max_wait) IN
    IF FracLeq(est, Whole(85)) THEN est ELSE Whole(85)

\* a variant of the deadline test that fires at the threshold itself
TimedOut_AtThreshold(elapsed_time, max_wait) == elapsed_time >= max_wait

\* line 196
TimedOut(elapsed_time, max_wait) == elapsed_time > max_wait

----------------------------------------------------------------------------
(* SimpleJobManager *)

Step(label, seconds) == [label |-> label, seconds |-> seconds]

FileInfo(id) == [name |-> "meeting.wav", gcs_uri |-> id]

\* a variant of the new record that already shows the first step
NewJob_Started(id, mode, t) ==
    [job_id |-> id, status |-> "processing", created_at |-> t, updated_at |-> t,
     file_info |-> FileInfo(id), settings |-> [speed_mode |-> mode],
     progress |-> Whole(10), current_step |-> [label |-> "starting", seconds |-> 0],
     result |-> None, error |-> None]

NewJob(id, mode, t) ==
    [job_id |-> id, status |-> "created", created_at |-> t, updated_at |-> t,
     file_info |-> FileInfo(id), settings |-> [speed_mode |-> mode],
     progress |-> Whole(0), current_step |-> [label |-> "waiting", seconds |-> 0],
     result |-> None, error |-> None]

load_job_data(st, id) == st[id]

save_job_data(st, id, job_data) == [st EXCEPT ![id] = Some(job_data)]

create_job(st, id, mode, t) == save_job_data(st, id, NewJob(id, mode, t))

\* a variant of the update that stores the arguments as they are given, the
\* ones left out included
update_job_status_Replace(st, id, t, status, progress, current_step, result, error) ==
    LET job_data == load_job_data(st, id) IN
    IF job_data = None THEN st
    ELSE save_job_data(st, id,
             [job_data[1] EXCEPT !.status = status, !.updated_at = t,
                                 !.progress = IF progress # None THEN progress[1]
                                              ELSE Whole(0),
                                 !.current_step = IF current_step # None
                                                  THEN current_step[1]
                                                  ELSE Step("waiting", 0),
                                 !.result = result, !.error = error])

update_job_status(st, id, t, status, progress, current_step, result, error) ==
    LET job_data == load_job_data(st, id) IN
    IF job_data = None THEN st
    ELSE LET d1 == [job_data[1] EXCEPT !.status = status, !.updated_at = t]
             d2 == IF progress # None THEN [d1 EXCEPT !.progress = progress[1]] ELSE d1
             d3 == IF current_step # None
                   THEN [d2 EXCEPT !.current_step = current_step[1]] ELSE d2
             d4 == IF result # None THEN [d3 EXCEPT !.result = result] ELSE d3
             d5 == IF error # None THEN [d4 EXCEPT !.error = error] ELSE d4
         IN save_job_data(st, id, d5)

get_job_status(st, id) == load_job_data(st, id)

\* The same three methods when a blob operation may raise: _save_job_data
\* (lines 83-93) and _load_job_data (lines 95-108) catch the exception, log it
\* and go on, so a failed save stores nothing and a failed load reads None.
create_job_io(st, id, mode, t, saved) ==
    IF saved THEN create_job(st, id, mode, t) ELSE st

update_job_status_io(st, id, t, status, progress, step, result, error, loaded, saved) ==
    IF loaded /\ saved
    THEN update_job_status(st, id, t, status, progress, step, result, error)
    ELSE st

get_job_status_io(st, id, loaded) ==
    IF loaded THEN get_job_status(st, id) ELSE None

\* a direct call of a manager method, with its arguments
Call(op, id, status, progress, current_step, result, error) ==
    [op |-> op, id |-> id, status |-> status, progress |-> progress,
     current_step |-> current_step, result |-> result, error |-> error]
NoCall == Call("none", "", "", None, None, None, None)

----------------------------------------------------------------------------
(* Errors written by the task *)

TimeoutError(mode) == [kind |-> "timeout", minutes |-> max_wait_time(mode) \div 60]
NoSpeechError == [kind |-> "no_speech", minutes |-> 0]
ProcessingError == [kind |-> "processing_error", minutes |-> 0]

----------------------------------------------------------------------------
Init ==
    /\ store = [id \in JobIds |-> None]
    /\ pc = "idle"
    /\ job_id = None
    /\ speed_mode = "balanced"
    /\ now = 0
    /\ start_time = 0
    /\ drift = 0
    /\ polls = 0
    /\ fetches = 0
    /\ summaries = 0
    /\ last_poll = "none"
    /\ last_summary = "none"
    /\ transcript = <<>>
    /\ processing_time = 0
    /\ transcript_sample = None
    /\ meeting_minutes = None
    /\ checks = 0
    /\ job_status = None
    /\ raised = "none"
    /\ created = <<>>
    /\ latest = [id \in JobIds |-> None]
    /\ chunks = <<>>
    /\ completion = <<>>
    /\ call = NoCall

ChunkVars == <<chunks, completion>>

\* main, lines 395-418: create_job, then start_background_processing
Submit ==
    /\ pc = "idle"
    /\ \E id \in JobIds, mode \in SpeedModes :
        /\ job_id' = Some(id)
        /\ speed_mode' = mode
        /\ store' = create_job(store, id, mode, now)
        /\ latest' = create_job(latest, id, mode, now)
        /\ created' = Append(created, id)
    /\ pc' = "step1"
    /\ UNCHANGED <<now, start_time, drift, polls, fetches, summaries, last_poll,
                   last_summary, transcript, processing_time, transcript_sample,
                   meeting_minutes, checks, job_status, raised, ChunkVars, call>>

(* process_audio_async: one action per persisted write, together with the
   external call that follows it *)

\* a variant of the sleep that returns at once
Sleep_NoWait(t, d) == t

\* a variant of the sleep that lasts two poll intervals
Sleep_Twice(t, d) == t + 2 * PollInterval + d

\* time.sleep(30), line 208: the clock after a sleep that overshoots by d
Sleep(t, d) == t + PollInterval + d

TaskLocals == <<transcript, processing_time, transcript_sample, meeting_minutes,
                last_summary>>
CallerVars == <<checks, job_status>>

\* lines 134-183: first write, then SpeechClient() and the configuration
StartRecognition ==
    /\ pc = "step1"
    /\ store' = update_job_status(store, job_id[1], now, "processing",
                                  Some(Whole(10)), Some(Step("starting", 0)), None, None)
    /\ latest' = update_job_status(latest, job_id[1], now, "processing",
                                  Some(Whole(10)), Some(Step("starting", 0)), None, None)
    /\ \E fails \in BOOLEAN :
        /\ pc' = IF fails THEN "except" ELSE "step2"
        /\ raised' = IF fails THEN "client" ELSE raised
    /\ UNCHANGED <<job_id, speed_mode, now, start_time, drift, polls, fetches,
                   summaries, last_poll, TaskLocals, CallerVars, created, ChunkVars, call>>

\* lines 186-187: second write, then long_running_recognize
CallRecognize ==
    /\ pc = "step2"
    /\ store' = update_job_status(store, job_id[1], now, "processing",
                                  Some(Whole(20)), Some(Step("calling_api", 0)), None, None)
    /\ latest' = update_job_status(latest, job_id[1], now, "processing",
                                  Some(Whole(20)), Some(Step("calling_api", 0)), None, None)
    /\ \E fails \in BOOLEAN :
        /\ pc' = IF fails THEN "except" ELSE "started"
        /\ raised' = IF fails THEN "submit" ELSE raised
    /\ UNCHANGED <<job_id, speed_mode, now, start_time, drift, polls, fetches,
                   summaries, last_poll, TaskLocals, CallerVars, created, ChunkVars, call>>

\* lines 190-191
BeginWait ==
    /\ pc = "started"
    /\ start_time' = now
    /\ store' = update_job_status(store, job_id[1], now, "processing",
                                  Some(Whole(25)),
                                  Some(Step("recognizing", max_wait_time(speed_mode))),
                                  None, None)
    /\ latest' = update_job_status(latest, job_id[1], now, "processing",
                                  Some(Whole(25)),
                                  Some(Step("recognizing", max_wait_time(speed_mode))),
                                  None, None)
    /\ pc' = "poll"
    /\ UNCHANGED <<job_id, speed_mode, now, drift, polls, fetches,
                   summaries, last_poll, TaskLocals, CallerVars, created, ChunkVars, call, raised>>

\* a variant of the timeout branch without its return: the loop goes on
TimeoutExit_NoReturn ==
    /\ store' = update_job_status(store, job_id[1], now, "failed",
                                  None, None, None, Some(TimeoutError(speed_mode)))
    /\ latest' = update_job_status(latest, job_id[1], now, "failed",
                                  None, None, None, Some(TimeoutError(speed_mode)))
    /\ pc' = "poll"
    /\ UNCHANGED <<now, drift>>

\* lines 196-198: the timeout write and the return
TimeoutExit ==
    /\ store' = update_job_status(store, job_id[1], now, "failed",
                                  None, None, None, Some(TimeoutError(speed_mode)))
    /\ latest' = update_job_status(latest, job_id[1], now, "failed",
                                  None, None, None, Some(TimeoutError(speed_mode)))
    /\ pc' = "timed_out"
    /\ UNCHANGED <<now, drift>>

\* lines 201-208: the progress write and the sleep
ProgressAndSleep ==
    /\ store' = update_job_status(
                    store, job_id[1], now, "processing",
                    Some(ProgressEstimate(now - start_time, max_wait_time(speed_mode))),
                    Some(Step("recognizing",
                              max_wait_time(speed_mode) - (now - start_time))),
                    None, None)
    /\ latest' = update_job_status(
                    latest, job_id[1], now, "processing",
                    Some(ProgressEstimate(now - start_time, max_wait_time(speed_mode))),
                    Some(Step("recognizing",
                              max_wait_time(speed_mode) - (now - start_time))),
                    None, None)
    /\ \E d \in 0..(MaxDrift - drift) :
        /\ now' = Sleep(now, d)
        /\ drift' = drift + d
    /\ pc' = "poll"

\* a variant of the loop that tests the deadline before it looks at what the
\* poll returned
Poll_DeadlineFirst ==
    /\ pc = "poll"
    /\ polls' = polls + 1
    /\ \E outcome \in {"done", "running", "raised"} :
        /\ last_poll' = outcome
        /\ raised' = IF outcome = "raised" THEN "poll" ELSE raised
        /\ IF outcome = "raised"
           THEN pc' = "except" /\ UNCHANGED <<store, latest, now, drift>>
           ELSE IF TimedOut(now - start_time, max_wait_time(speed_mode))
           THEN TimeoutExit
           ELSE IF outcome = "done"
           THEN pc' = "fetch" /\ UNCHANGED <<store, latest, now, drift>>
           ELSE ProgressAndSleep
    /\ UNCHANGED <<job_id, speed_mode, start_time, fetches, summaries,
                   TaskLocals, CallerVars, created, ChunkVars, call>>

\* a variant of the loop that takes a poll that raised for a poll that
\* returned not-done and goes on waiting
Poll_IgnoreRaise ==
    /\ pc = "poll"
    /\ polls' = polls + 1
    /\ \E outcome \in {"done", "running", "raised"} :
        /\ last_poll' = outcome
        /\ raised' = IF outcome = "raised" THEN "poll" ELSE raised
        /\ IF outcome = "done"
           THEN pc' = "fetch" /\ UNCHANGED <<store, latest, now, drift>>
           ELSE IF TimedOut(now - start_time, max_wait_time(speed_mode))
           THEN TimeoutExit
           ELSE ProgressAndSleep
    /\ UNCHANGED <<job_id, speed_mode, start_time, fetches, summaries,
                   TaskLocals, CallerVars, created, ChunkVars, call>>

\* lines 194-208: one evaluation of the loop condition and one loop body
Poll ==
    /\ pc = "poll"
    /\ polls' = polls + 1
    /\ \E outcome \in {"done", "running", "raised"} :
        /\ last_poll' = outcome
        /\ raised' = IF outcome = "raised" THEN "poll" ELSE raised
        /\ IF outcome = "done"
           THEN pc' = "fetch" /\ UNCHANGED <<store, latest, now, drift>>
           ELSE IF outcome = "raised"
           THEN pc' = "except" /\ UNCHANGED <<store, latest, now, drift>>
           ELSE IF TimedOut(now - start_time, max_wait_time(speed_mode))
           THEN TimeoutExit
           ELSE ProgressAndSleep
    /\ UNCHANGED <<job_id, speed_mode, start_time, fetches, summaries,
                   TaskLocals, CallerVars, created, ChunkVars, call>>

\* a variant of the fetch that asks for the result again when the call raised
Fetch_Retry ==
    /\ pc = "fetch"
    /\ store' = update_job_status(store, job_id[1], now, "processing",
                                  Some(Whole(85)), Some(Step("fetching", 0)), None, None)
    /\ latest' = update_job_status(latest, job_id[1], now, "processing",
                                  Some(Whole(85)), Some(Step("fetching", 0)), None, None)
    /\ fetches' = fetches + 1
    /\ \/ /\ pc' = "fetch"
          /\ raised' = "fetch"
          /\ UNCHANGED <<transcript, processing_time>>
       \/ \E response \in Responses :
            LET joined == JoinResults(response) IN
            /\ processing_time' = now - start_time
            /\ IF joined = None
               THEN pc' = "except" /\ raised' = "results" /\ UNCHANGED transcript
               ELSE pc' = "check" /\ transcript' = joined[1] /\ UNCHANGED raised
    /\ UNCHANGED <<job_id, speed_mode, now, start_time, drift, polls, summaries,
                   last_poll, last_summary, transcript_sample, meeting_minutes,
                   CallerVars, created, ChunkVars, call>>

\* lines 211-217: the write, operation.result() and the transcript
Fetch ==
    /\ pc = "fetch"
    /\ store' = update_job_status(store, job_id[1], now, "processing",
                                  Some(Whole(85)), Some(Step("fetching", 0)), None, None)
    /\ latest' = update_job_status(latest, job_id[1], now, "processing",
                                  Some(Whole(85)), Some(Step("fetching", 0)), None, None)
    /\ fetches' = fetches + 1
    /\ \/ /\ pc' = "except"
          /\ raised' = "fetch"
          /\ UNCHANGED <<transcript, processing_time>>
       \/ \E response \in Responses :
            LET joined == JoinResults(response) IN
            /\ processing_time' = now - start_time
            /\ IF joined = None
               THEN pc' = "except" /\ raised' = "results" /\ UNCHANGED transcript
               ELSE pc' = "check" /\ transcript' = joined[1] /\ UNCHANGED raised
    /\ UNCHANGED <<job_id, speed_mode, now, start_time, drift, polls, summaries,
                   last_poll, last_summary, transcript_sample, meeting_minutes,
                   CallerVars, created, ChunkVars, call>>

\* a variant of the empty transcript branch without its return: the task goes
\* on to the summarization, whose service fails on the empty text
NoSpeechExit_NoReturn ==
    /\ store' = update_job_status(store, job_id[1], now, "failed",
                                  None, None, None, Some(NoSpeechError))
    /\ latest' = update_job_status(latest, job_id[1], now, "failed",
                                  None, None, None, Some(NoSpeechError))
    /\ summaries' = summaries + 1
    /\ last_summary' = "api_error"
    /\ transcript_sample' = Some(Sample(transcript))
    /\ meeting_minutes' = Some(DegradedMinutes(transcript))
    /\ pc' = "save"

\* lines 219-221: the empty transcript write and the return
NoSpeechExit ==
    /\ store' = update_job_status(store, job_id[1], now, "failed",
                                  None, None, None, Some(NoSpeechError))
    /\ latest' = update_job_status(latest, job_id[1], now, "failed",
                                  None, None, None, Some(NoSpeechError))
    /\ pc' = "no_speech"
    /\ UNCHANGED <<summaries, last_summary, transcript_sample, meeting_minutes>>

\* lines 224-287: the write, then the summarization inside its own try
Summarize ==
    /\ store' = update_job_status(store, job_id[1], now, "processing",
                                  Some(Whole(90)), Some(Step("summarizing", 0)), None, None)
    /\ latest' = update_job_status(latest, job_id[1], now, "processing",
                                  Some(Whole(90)), Some(Step("summarizing", 0)), None, None)
    /\ \E outcome \in {"ok", "no_key", "api_error"} :
        /\ last_summary' = outcome
        /\ summaries' = IF outcome = "no_key" THEN summaries ELSE summaries + 1
        /\ transcript_sample' =
              IF outcome = "no_key" THEN transcript_sample ELSE Some(Sample(transcript))
        /\ meeting_minutes' =
              IF outcome = "ok" THEN Some(Minutes) ELSE Some(DegradedMinutes(transcript))
    /\ pc' = "save"

\* a variant of the step after the fetch without the empty transcript test
CheckTranscript_NoTest ==
    /\ pc = "check"
    /\ Summarize
    /\ UNCHANGED <<job_id, speed_mode, now, start_time, drift, polls, fetches,
                   last_poll, transcript, processing_time, CallerVars, created,
                   ChunkVars, call, raised>>

\* lines 219-224: the empty transcript test
CheckTranscript ==
    /\ pc = "check"
    /\ IF StripEmpty(transcript) THEN NoSpeechExit ELSE Summarize
    /\ UNCHANGED <<job_id, speed_mode, now, start_time, drift, polls, fetches,
                   last_poll, transcript, processing_time, CallerVars, created, ChunkVars, call, raised>>

\* lines 290-299
result_data ==
    [transcript |-> transcript, meeting_minutes |-> meeting_minutes[1],
     processing_time |-> processing_time, completed_at |-> now,
     stats |-> [characters |-> TextLen(transcript)]]

\* a variant of the final write that leaves the result out
Complete_NoResult ==
    /\ pc = "save"
    /\ store' = update_job_status(store, job_id[1], now, "completed",
                                  Some(Whole(100)), Some(Step("done", 0)), None, None)
    /\ latest' = update_job_status(latest, job_id[1], now, "completed",
                                  Some(Whole(100)), Some(Step("done", 0)), None, None)
    /\ pc' = "completed"
    /\ UNCHANGED <<job_id, speed_mode, now, start_time, drift, polls, fetches,
                   summaries, last_poll, TaskLocals, CallerVars, created, ChunkVars, call, raised>>

\* a variant of the final write that leaves the progress out
Complete_NoProgress ==
    /\ pc = "save"
    /\ store' = update_job_status(store, job_id[1], now, "completed",
                                  None, Some(Step("done", 0)),
                                  Some(result_data), None)
    /\ latest' = update_job_status(latest, job_id[1], now, "completed",
                                  None, Some(Step("done", 0)),
                                  Some(result_data), None)
    /\ pc' = "completed"
    /\ UNCHANGED <<job_id, speed_mode, now, start_time, drift, polls, fetches,
                   summaries, last_poll, TaskLocals, CallerVars, created, ChunkVars, call, raised>>

\* line 301
Complete ==
    /\ pc = "save"
    /\ store' = update_job_status(store, job_id[1], now, "completed",
                                  Some(Whole(100)), Some(Step("done", 0)),
                                  Some(result_data), None)
    /\ latest' = update_job_status(latest, job_id[1], now, "completed",
                                  Some(Whole(100)), Some(Step("done", 0)),
                                  Some(result_data), None)
    /\ pc' = "completed"
    /\ UNCHANGED <<job_id, speed_mode, now, start_time, drift, polls, fetches,
                   summaries, last_poll, TaskLocals, CallerVars, created, ChunkVars, call, raised>>

\* a variant of the handler that only logs the exception
HandleException_Silent ==
    /\ pc = "except"
    /\ pc' = "error"
    /\ UNCHANGED <<store, latest, job_id, speed_mode, now, start_time, drift, polls,
                   fetches, summaries, last_poll, TaskLocals, CallerVars, created, ChunkVars, call, raised>>

\* lines 303-304
HandleException ==
    /\ pc = "except"
    /\ store' = update_job_status(store, job_id[1], now, "failed",
                                  None, None, None, Some(ProcessingError))
    /\ latest' = update_job_status(latest, job_id[1], now, "failed",
                                  None, None, None, Some(ProcessingError))
    /\ pc' = "error"
    /\ UNCHANGED <<job_id, speed_mode, now, start_time, drift, polls, fetches,
                   summaries, last_poll, TaskLocals, CallerVars, created, ChunkVars, call, raised>>

\* main, lines 455-457: the caller asks for the status of its current job
Status ==
    /\ job_id # None
    /\ checks < MaxChecks
    /\ checks' = checks + 1
    /\ job_status' = get_job_status(store, job_id[1])
    /\ UNCHANGED <<store, latest, pc, job_id, speed_mode, now, start_time, drift,
                   polls, fetches, summaries, last_poll, TaskLocals, raised, created,
                   ChunkVars, call>>

Task ==
    \/ StartRecognition
    \/ CallRecognize
    \/ BeginWait
    \/ Poll
    \/ Fetch
    \/ CheckTranscript
    \/ Complete
    \/ HandleException

Next == Submit \/ Status \/ Task

Spec == Init /\ [][Next]_vars

\* The job on its own: the caller never asks for the status again, and the
\* thread started by start_background_processing keeps running
BackgroundNext == Submit \/ Task

BackgroundSpec == Init /\ [][BackgroundNext]_vars /\ WF_vars(Task)

Terminal == {"timed_out", "no_speech", "completed", "error"}

----------------------------------------------------------------------------
(* SimpleJobManager on its own: callers create and update job records in any
   order *)

UpdateStatuses == {"processing", "completed", "failed"}
ProgressArgs == {None, Some(Whole(50))}
StepArgs == {None, Some(Step("recognizing", 0))}
ResultArgs == {None, Some([transcript |-> Speech])}
ErrorArgs == {None, Some(ProcessingError)}

TaskVars == <<pc, job_id, speed_mode, start_time, drift, polls, fetches,
              summaries, last_poll, TaskLocals, raised, checks, ChunkVars>>

\* create_job, lines 35-52; a second passes between two calls
CreateJob ==
    /\ now < MaxCalls
    /\ \E id \in JobIds, mode \in SpeedModes :
        /\ store' = create_job(store, id, mode, now)
        /\ latest' = create_job(latest, id, mode, now)
        /\ created' = Append(created, id)
        /\ call' = Call("create", id, "created", None, None, None, None)
    /\ now' = now + 1
    /\ UNCHANGED <<job_status, TaskVars>>

\* update_job_status, lines 54-77
UpdateJobStatus ==
    /\ now < MaxCalls
    /\ \E id \in JobIds, status \in UpdateStatuses, progress \in ProgressArgs,
          current_step \in StepArgs, result \in ResultArgs, error \in ErrorArgs :
        /\ store' = update_job_status(store, id, now, status, progress,
                                      current_step, result, error)
        /\ latest' = update_job_status(latest, id, now, status, progress,
                                       current_step, result, error)
        /\ call' = Call("update", id, status, progress, current_step, result, error)
    /\ now' = now + 1
    /\ UNCHANGED <<created, job_status, TaskVars>>

ManagerNext == CreateJob \/ UpdateJobStatus

ManagerSpec == Init /\ [][ManagerNext]_vars

(* The same with blob operations that may raise, and a caller that reads *)

\* the writes the callers make: a progress report and a failure
Writes ==
    { Call("update", id, "processing", Some(Whole(50)),
           Some(Step("recognizing", 0)), None, None) : id \in JobIds }
    \cup { Call("update", id, "failed", None, None, None, Some(ProcessingError)) :
             id \in JobIds }

\* create_job, lines 35-52, over _save_job_data, lines 83-93
CreateJobIO ==
    /\ now < MaxCalls
    /\ \E id \in JobIds, mode \in SpeedModes, saved \in BOOLEAN :
        /\ store' = create_job_io(store, id, mode, now, saved)
        /\ latest' = create_job(latest, id, mode, now)
        /\ created' = Append(created, id)
        /\ call' = Call("create", id, "created", None, None, None, None)
    /\ now' = now + 1
    /\ UNCHANGED <<job_status, TaskVars>>

\* update_job_status, lines 54-77, over _load_job_data and _save_job_data
UpdateJobStatusIO ==
    /\ now < MaxCalls
    /\ \E w \in Writes, loaded \in BOOLEAN, saved \in BOOLEAN :
        /\ store' = update_job_status_io(store, w.id, now, w.status, w.progress,
                                         w.current_step, w.result, w.error,
                                         loaded, saved)
        /\ latest' = update_job_status(latest, w.id, now, w.status, w.progress,
                                       w.current_step, w.result, w.error)
        /\ call' = w
    /\ now' = now + 1
    /\ UNCHANGED <<created, job_status, TaskVars>>

\* get_job_status, lines 79-81, over _load_job_data, lines 95-108
GetJobStatusIO ==
    /\ checks < MaxChecks
    /\ checks' = checks + 1
    /\ \E id \in JobIds, loaded \in BOOLEAN :
        /\ job_status' = get_job_status_io(store, id, loaded)
        /\ call' = Call("status", id, "", None, None, None, None)
    /\ UNCHANGED <<store, latest, created, now, pc, job_id, speed_mode, start_time,
                   drift, polls, fetches, summaries, last_poll, TaskLocals, raised,
                   ChunkVars>>

ManagerIONext == CreateJobIO \/ UpdateJobStatusIO \/ GetJobStatusIO

ManagerIOSpec == Init /\ [][ManagerIONext]_vars

----------------------------------------------------------------------------
(* The chunked path (ChunkSplitter and ChunkWorkerPool): the source is cut
   into NumChunks chunks with indices 0..NumChunks-1, the pool transcribes
   them independently and they complete in any order; a chunk that fails
   leaves a failure marker.  The task then goes on with the assembled
   transcript as it does with a fetched one. *)

ChunkIndices == 0..(NumChunks - 1)

\* what the transcription of chunk i gives, and what stands for a failed chunk
ChunkText(i) == <<Piece("chunk_text", 40 * i + 1, 40 * i + 40)>>
FailureMarker(i) == <<Piece("chunk_failure_marker", i, i)>>

Completed(ch) == {i \in DOMAIN ch : ch[i] # None}

\* progress = completed_chunk_count / total_chunk_count * 100
ChunkProgress(ch) == Frac(100 * Cardinality(Completed(ch)), NumChunks)

\* Split: the ordered sequence of chunk descriptors, none transcribed yet
Split ==
    /\ pc = "step2"
    /\ chunks' = [i \in ChunkIndices |-> None]
    /\ completion' = <<>>
    /\ pc' = "chunks"
    /\ UNCHANGED <<store, latest, job_id, speed_mode, now, start_time, drift, polls,
                   fetches, summaries, last_poll, TaskLocals, raised, CallerVars,
                   created, call>>

\* a variant of the pool in which a failed chunk ends the job
ChunkDone_Abort ==
    /\ pc = "chunks"
    /\ \E i \in ChunkIndices, ok \in BOOLEAN :
        /\ chunks[i] = None
        /\ chunks' = [chunks EXCEPT ![i] = IF ok THEN Some(ChunkText(i))
                                          ELSE Some(FailureMarker(i))]
        /\ completion' = Append(completion, i)
        /\ pc' = IF ok THEN "chunks" ELSE "except"
        /\ store' = update_job_status(store, job_id[1], now, "processing",
                                      Some(ChunkProgress(chunks')),
                                      Some(Step("chunks", Len(completion'))),
                                      None, None)
        /\ latest' = update_job_status(latest, job_id[1], now, "processing",
                                       Some(ChunkProgress(chunks')),
                                       Some(Step("chunks", Len(completion'))),
                                       None, None)
    /\ UNCHANGED <<job_id, speed_mode, now, start_time, drift, polls, fetches,
                   summaries, last_poll, TaskLocals, raised, CallerVars, created,
                   call>>

\* one chunk completes, with its text or with a failure that is absorbed
ChunkDone ==
    /\ pc = "chunks"
    /\ \E i \in ChunkIndices, ok \in BOOLEAN :
        /\ chunks[i] = None
        /\ chunks' = [chunks EXCEPT ![i] = IF ok THEN Some(ChunkText(i))
                                          ELSE Some(FailureMarker(i))]
        /\ completion' = Append(completion, i)
        /\ store' = update_job_status(store, job_id[1], now, "processing",
                                      Some(ChunkProgress(chunks')),
                                      Some(Step("chunks", Len(completion'))),
                                      None, None)
        /\ latest' = update_job_status(latest, job_id[1], now, "processing",
                                       Some(ChunkProgress(chunks')),
                                       Some(Step("chunks", Len(completion'))),
                                       None, None)
    /\ UNCHANGED <<pc, job_id, speed_mode, now, start_time, drift, polls, fetches,
                   summaries, last_poll, TaskLocals, raised, CallerVars, created,
                   call>>

\* the outcomes taken in the order the chunks completed
RECURSIVE JoinCompleted(_, _)
JoinCompleted(ch, order) ==
    IF order = <<>> THEN <<>>
    ELSE ch[Head(order)][1] \o JoinCompleted(ch, Tail(order))

\* join(chunks sorted by index, using failure marker text for failed indices)
RECURSIVE JoinByIndex(_, _)
JoinByIndex(ch, i) ==
    IF i \notin DOMAIN ch THEN <<>> ELSE ch[i][1] \o JoinByIndex(ch, i + 1)

\* a variant of the assembly that takes the chunks as they completed
Assemble_CompletionOrder ==
    /\ pc = "chunks"
    /\ Completed(chunks) = ChunkIndices
    /\ transcript' = JoinCompleted(chunks, completion)
    /\ processing_time' = now - start_time
    /\ pc' = "check"
    /\ UNCHANGED <<store, latest, job_id, speed_mode, now, start_time, drift, polls,
                   fetches, summaries, last_poll, last_summary, transcript_sample,
                   meeting_minutes, raised, CallerVars, created, ChunkVars, call>>

\* final transcript assembly, once every chunk has completed
Assemble ==
    /\ pc = "chunks"
    /\ Completed(chunks) = ChunkIndices
    /\ transcript' = JoinByIndex(chunks, 0)
    /\ processing_time' = now - start_time
    /\ pc' = "check"
    /\ UNCHANGED <<store, latest, job_id, speed_mode, now, start_time, drift, polls,
                   fetches, summaries, last_poll, last_summary, transcript_sample,
                   meeting_minutes, raised, CallerVars, created, ChunkVars, call>>

ChunkTask ==
    \/ StartRecognition
    \/ Split
    \/ ChunkDone
    \/ Assemble
    \/ CheckTranscript
    \/ Complete
    \/ HandleException

ChunkNext == Submit \/ ChunkTask

ChunkSpec == Init /\ [][ChunkNext]_vars /\ WF_vars(ChunkTask)

----------------------------------------------------------------------------
(* Properties *)

Exists(id) == store[id] # None
Job(id) == store[id][1]
TerminalStatus == {"completed", "failed"}
Rank(status) ==
    IF status = "created" THEN 0 ELSE IF status = "processing" THEN 1 ELSE 2

\* C1 (terminal finality): once the persisted status of a job is completed or
\* failed, no later step changes the status, progress, result or error that
\* get_job_status returns for it.
C1_TerminalFinality ==
    [][\A id \in JobIds :
          (Exists(id) /\ Job(id).status \in TerminalStatus)
          => /\ store'[id] # None
             /\ store'[id][1].status = Job(id).status
             /\ store'[id][1].progress = Job(id).progress
             /\ store'[id][1].result = Job(id).result
             /\ store'[id][1].error = Job(id).error]_vars

\* a Status call made after the task ended reads the terminal record
C1_Witness ==
    /\ pc \in Terminal
    /\ checks = 1
    /\ job_status # None
    /\ job_status[1].status \in TerminalStatus
    /\ job_status = store[job_id[1]]

\* C2 (status never regresses): every write to a job record keeps the status
\* or moves it forward in the order created, processing, {completed, failed};
\* it never moves between completed and failed.
C2_StatusForward ==
    [][\A id \in JobIds :
          Exists(id)
          => /\ store'[id] # None
             /\ \/ store'[id][1].status = Job(id).status
                \/ Rank(store'[id][1].status) > Rank(Job(id).status)]_vars

\* a job that went through processing and ended failed after an empty transcript
C2_Witness ==
    /\ pc = "no_speech"
    /\ Job(job_id[1]).status = "failed"
    /\ Job(job_id[1]).progress = Whole(85)

\* C3 (monotonic progress): while the persisted status stays processing the
\* persisted progress never decreases from one write to the next, so a later
\* Status observation never shows less than an earlier one.
C3_MonotonicProgress ==
    [][\A id \in JobIds :
          (Exists(id) /\ store'[id] # None
           /\ Job(id).status = "processing" /\ store'[id][1].status = "processing")
          => FracLeq(Job(id).progress, store'[id][1].progress)]_vars

\* the polling loop has written an estimate strictly between 25 and 85
C3_Witness ==
    /\ pc = "poll"
    /\ polls > 1
    /\ Job(job_id[1]).status = "processing"
    /\ ~FracLeq(Job(job_id[1]).progress, Whole(25))
    /\ ~FracLeq(Whole(85), Job(job_id[1]).progress)

\* the thresholds as the claims state them
ClaimedThreshold(mode) ==
    IF mode = "fast" THEN 1500 ELSE IF mode = "balanced" THEN 1800 ELSE 2400

TimeoutFailed ==
    /\ pc = "timed_out"
    /\ Job(job_id[1]).status = "failed"
    /\ Job(job_id[1]).error =
          Some([kind |-> "timeout", minutes |-> ClaimedThreshold(speed_mode) \div 60])
    /\ now - start_time > ClaimedThreshold(speed_mode)

IsCreatedView(view) ==
    /\ view # None
    /\ view[1].status = "created"
    /\ view[1].progress = Whole(0)
    /\ view[1].result = None
    /\ view[1].error = None

C6_PayloadMatchesStatus ==
    \A id \in JobIds :
        Exists(id)
        => /\ (Job(id).result # None) <=> (Job(id).status = "completed")
           /\ (Job(id).error # None) <=> (Job(id).status = "failed")

\* a completed job: a result and no error
C6_Witness ==
    /\ pc = "completed"
    /\ Job(job_id[1]).status = "completed"
    /\ Job(job_id[1]).result # None
    /\ Job(job_id[1]).error = None

\* C7 (progress range): in every persisted record the progress is between 0
\* and 100 (the estimates of the polling loop are fractions), and it is 100
\* exactly when the status is completed.
C7_ProgressRange ==
    \A id \in JobIds :
        Exists(id)
        => /\ FracLeq(Whole(0), Job(id).progress)
           /\ FracLeq(Job(id).progress, Whole(100))
           /\ FracEq(Job(id).progress, Whole(100)) <=> (Job(id).status = "completed")

\* a job that failed by timeout right after the estimate reached its cap of 85
C7_Witness ==
    /\ pc = "timed_out"
    /\ Job(job_id[1]).status = "failed"
    /\ FracEq(Job(job_id[1]).progress, Whole(85))

C9_FetchOnce ==
    /\ fetches <= 1
    /\ fetches = 1 => (polls >= 1 /\ last_poll = "done")
    /\ pc = "timed_out" => fetches = 0
    /\ pc = "completed" => fetches = 1

\* a completed run that polled several times and fetched once
C9_Witness ==
    /\ pc = "completed"
    /\ polls > 1
    /\ fetches = 1

SummaryFailed == last_summary \in {"no_key", "api_error"}

FatalRaise == raised \in {"submit", "poll", "fetch"}

Created(id) == \E i \in 1..Len(created) : created[i] = id

\* C12 (update frame): an update_job_status call leaves job_id, created_at,
\* file_info and settings of the record as create_job set them, leaves each of
\* progress, current_step, result and error as it was when the argument is not
\* supplied, and leaves the records of all other ids as they were.
C12_UpdateFrame ==
    [][call'.op = "update"
       => \A id \in JobIds :
            IF id = call'.id /\ Exists(id)
            THEN /\ store'[id] # None
                 /\ store'[id][1].job_id = id
                 /\ store'[id][1].job_id = Job(id).job_id
                 /\ store'[id][1].created_at = Job(id).created_at
                 /\ store'[id][1].file_info = Job(id).file_info
                 /\ store'[id][1].settings = Job(id).settings
                 /\ call'.progress = None
                    => store'[id][1].progress = Job(id).progress
                 /\ call'.current_step = None
                    => store'[id][1].current_step = Job(id).current_step
                 /\ call'.result = None
                    => store'[id][1].result = Job(id).result
                 /\ call'.error = None
                    => store'[id][1].error = Job(id).error
            ELSE store'[id] = store[id]]_vars

\* an update that gave only the error, made on a record that had a progress of
\* 50 and a step from an earlier update
C12_Witness ==
    /\ call.op = "update"
    /\ call.progress = None
    /\ call.current_step = None
    /\ call.error # None
    /\ Exists(call.id)
    /\ Job(call.id).status = "failed"
    /\ Job(call.id).progress = Whole(50)
    /\ Job(call.id).current_step = Step("recognizing", 0)
    /\ Job(call.id).error = call.error
    /\ Job(call.id).updated_at > Job(call.id).created_at

\* C13 as stated (unique ids, created exactly once): any two create_job calls
\* return different ids, and a create_job call never writes over a record that
\* is already there.
C13_UniqueIdsCreatedOnce ==
    /\ [](\A i, j \in 1..Len(created) : i # j => created[i] # created[j])
    /\ [][call'.op = "create" => store[call'.id] = None]_vars

\* C14 as stated (Status returns the latest snapshot): a get_job_status call
\* for an id that create_job returned gives the record as of the latest
\* create_job or update_job_status call for that id: never None, never an
\* older record, also when a blob operation raised and was swallowed.
C14_StatusLatestSnapshot ==
    (call.op = "status" /\ Created(call.id)) => job_status = latest[call.id]

Chunked == pc \in {"check", "save", "completed", "no_speech"} /\ chunks # <<>>

\* the text that stands at index i of the assembled transcript
TextAt(i) == chunks[i][1]

\* C15 (ordered reassembly): the transcript assembled from chunks 0..n-1 is
\* the chunk texts in index order, whatever the order in which the chunks
\* completed, and that is the transcript a completed job stores.
C15_OrderedReassembly ==
    Chunked
    => /\ Len(transcript) = NumChunks
       /\ \A i \in ChunkIndices : <<transcript[i + 1]>> = TextAt(i)
       /\ pc = "completed"
          => Job(job_id[1]).result[1].transcript = transcript

\* three chunks that completed in the order 2, 0, 1 and a completed job
C15_Witness ==
    /\ pc = "completed"
    /\ completion = <<2, 0, 1>>
    /\ transcript = ChunkText(0) \o ChunkText(1) \o ChunkText(2)
    /\ Job(job_id[1]).result[1].transcript = transcript

ChunkFailed(i) == chunks # <<>> /\ chunks[i] = Some(FailureMarker(i))

\* C16 (partial chunk failure isolation): a chunk failure never makes the job
\* failed; the job reaches completed with progress 100, and its transcript
\* holds the failure marker at the failed chunk's index and the real text of
\* every other chunk at its own index.
C16_ChunkFailureIsolation ==
    /\ []((\E i \in ChunkIndices : ChunkFailed(i))
          => /\ Job(job_id[1]).status # "failed"
             /\ pc \notin {"except", "error", "no_speech", "timed_out"}
             /\ pc = "completed"
                => /\ Job(job_id[1]).status = "completed"
                   /\ Job(job_id[1]).progress = Whole(100)
                   /\ \A i \in ChunkIndices :
                        <<Job(job_id[1]).result[1].transcript[i + 1]>>
                          = IF ChunkFailed(i) THEN FailureMarker(i)
                            ELSE ChunkText(i))
    /\ (\E i \in ChunkIndices : ChunkFailed(i))
          ~> (job_id # None /\ Job(job_id[1]).status = "completed")

\* three chunks of which chunk 1 failed: completed, marker at position 1
C16_Witness ==
    /\ pc = "completed"
    /\ Job(job_id[1]).status = "completed"
    /\ Job(job_id[1]).progress = Whole(100)
    /\ Job(job_id[1]).result[1].transcript
         = ChunkText(0) \o FailureMarker(1) \o ChunkText(2)

\* the character at offset k (from 1) of a text: its source and its place there
RECURSIVE CharAt(_, _)
CharAt(t, k) ==
    LET l == t[1].hi - t[1].lo + 1 IN
    IF k <= l THEN [src |-> t[1].src, pos |-> t[1].lo + k - 1]
    ELSE CharAt(Tail(t), k - l)

\* the text s holds the character at offset k of the text t
Holds(s, t, k) ==
    \E i \in 1..Len(s) :
        /\ s[i].src = CharAt(t, k).src
        /\ s[i].lo <= CharAt(t, k).pos
        /\ CharAt(t, k).pos <= s[i].hi

\* C17 as stated (oversize transcript sampling): the text handed to the
\* summarizer for a transcript of more than max_length characters is made of a
\* head, a middle and a tail segment of the transcript (so it holds the
\* transcript's first, middle and last character) and a note; it is not the
\* first max_length characters of the transcript followed by the note.
C17_HeadMiddleTailSample ==
    (transcript_sample # None /\ TextLen(transcript) > max_length)
    => /\ Holds(transcript_sample[1], transcript, 1)
       /\ Holds(transcript_sample[1], transcript, TextLen(transcript) \div 2)
       /\ Holds(transcript_sample[1], transcript, TextLen(transcript))
       /\ transcript_sample[1] # Prefix(transcript, max_length) \o ExcerptNote

\* C18 (timeout bound): the three modes have the pairwise distinct thresholds
\* 1500, 1800 and 2400 s; while the loop runs the elapsed time is at most the
\* threshold T plus one poll interval (plus what the sleeps overshot), and a
\* run that times out has written failed at the first poll with an elapsed
\* time above T: at T + 30 s exactly when every sleep took 30 s, after at most
\* T/30 + 2 polls.
C18_TimeoutBound ==
    LET T == ClaimedThreshold(speed_mode)
        elapsed_time == now - start_time
    IN /\ \A m \in SpeedModes : max_wait_time(m) = ClaimedThreshold(m)
       /\ \A m1, m2 \in SpeedModes : m1 # m2 => max_wait_time(m1) # max_wait_time(m2)
       /\ pc = "poll"
          => /\ elapsed_time = PollInterval * polls + drift
             /\ elapsed_time <= T + PollInterval + drift
       /\ pc = "timed_out"
          => /\ Job(job_id[1]).status = "failed"
             /\ Job(job_id[1]).updated_at = now
             /\ elapsed_time > T
             /\ elapsed_time = PollInterval * (polls - 1) + drift
             /\ elapsed_time <= T + PollInterval + drift
             /\ drift = 0 => elapsed_time = T + PollInterval
             /\ polls <= T \div PollInterval + 2

\* a quality job with sleeps of 30 s exactly: failed at 2430 s, at its 82nd poll
C18_Witness ==
    /\ pc = "timed_out"
    /\ speed_mode = "quality"
    /\ drift = 0
    /\ now - start_time = 2430
    /\ polls = 82
    /\ Job(job_id[1]).status = "failed"

\* the text has a character that is not whitespace
HasSpeech(t) == \E i \in 1..Len(t) : t[i].src # "newline"

\* C19 (summarizer ordering): the summarization service is called at most
\* once in a run, and only from the step after a fetch that gave a transcript
\* with something other than whitespace in it; a run that ends by timeout, by
\* an exception of the transcription or by an empty transcript ends failed
\* with an error and no result and has made no summarization call.
C19_SummarizerOrdering ==
    /\ [](/\ summaries <= 1
          /\ summaries = 1
             => /\ fetches = 1
                /\ HasSpeech(transcript)
                /\ pc \in {"save", "completed"}
          /\ pc = "except" => summaries = 0
          /\ pc \in {"timed_out", "error", "no_speech"}
             => /\ summaries = 0
                /\ Job(job_id[1]).status = "failed"
                /\ Job(job_id[1]).error # None
                /\ Job(job_id[1]).result = None)
    /\ [][summaries' # summaries
          => /\ summaries' = summaries + 1
             /\ pc = "check"
             /\ fetches = 1
             /\ last_poll = "done"
             /\ HasSpeech(transcript)]_vars

\* a run whose fetch gave whitespace only: failed, no summarization call
C19_Witness ==
    /\ pc = "no_speech"
    /\ fetches = 1
    /\ transcript # <<>>
    /\ ~HasSpeech(transcript)
    /\ summaries = 0
    /\ Job(job_id[1]).status = "failed"
    /\ Job(job_id[1]).error = Some(NoSpeechError)

\* C20 (done wins over the deadline): a poll that returns done takes the task
\* to the fetch without a write, whatever the elapsed time; the run has not
\* timed out and never does, and the fetch follows.
C20_DoneWins ==
    /\ [][(polls' = polls + 1 /\ last_poll' = "done")
          => /\ pc' = "fetch"
             /\ store' = store]_vars
    /\ [](last_poll = "done"
          => /\ pc # "timed_out"
             /\ Job(job_id[1]).error # Some(TimeoutError(speed_mode))
             /\ pc = "fetch" \/ fetches = 1)
    /\ (last_poll = "done") ~> (fetches = 1)

\* a poll that returned done at an elapsed time beyond the threshold of the
\* mode, and the fetch that followed it
C20_Witness ==
    /\ last_poll = "done"
    /\ now - start_time > max_wait_time(speed_mode)
    /\ fetches = 1
    /\ pc = "check"
====
